---- MODULE Spec2Model ----
(***************************************************************************)
(* A model of the Maji Ndogo processing classes:                           *)
(*   FieldDataProcessor   (src/field_data_processor.py)                    *)
(*   WeatherDataProcessor (src/weather_data_processor.py)                  *)
(*                                                                         *)
(* Text is a sequence of one-character strings, so that strip, lower,      *)
(* isdigit, float() and the regular-expression search are computed         *)
(* character by character.  A number is an exact fraction <<n, d>> in      *)
(* lowest terms with d > 0.  A cell of a table is a record                 *)
(*   [k |-> "s", s |-> text, n |-> Zero]    a str                          *)
(*   [k |-> "n", s |-> <<>>, n |-> number]  a float                        *)
(*   [k |-> "null", s |-> <<>>, n |-> Zero] None / NaN                     *)
(* and a table is [names |-> Seq(column label), cols |-> Seq(column)],     *)
(* a column being [dtype |-> "object" | "float64", vals |-> Seq(cell)].    *)
(***************************************************************************)
EXTENDS Integers, Sequences, FiniteSets, TLC

(* ------------------------------------------------------------------ *)
(* Sequences                                                          *)
(* ------------------------------------------------------------------ *)

Range(q) == {q[i] : i \in 1..Len(q)}

IndexOf(q, x) == CHOOSE i \in 1..Len(q) : q[i] = x

\* s[a+1 .. b] in Python's half-open 0-based positions: s[a:b]
Slice(s, a, b) == [i \in 1..(b - a) |-> s[a + i]]

(* ------------------------------------------------------------------ *)
(* Numbers: exact fractions                                           *)
(* ------------------------------------------------------------------ *)

Zero == <<0, 1>>

AbsInt(x) == IF x < 0 THEN -x ELSE x

RECURSIVE Gcd(_, _)
Gcd(a, b) == IF b = 0 THEN a ELSE Gcd(b, a % b)

Frac(n, d) ==
    LET g == Gcd(AbsInt(n), d)
    IN  IF n = 0 THEN Zero ELSE <<n \div g, d \div g>>

FracAdd(x, y) == Frac(x[1] * y[2] + y[1] * x[2], x[2] * y[2])

FracAbs(x) == <<AbsInt(x[1]), x[2]>>

(* ------------------------------------------------------------------ *)
(* Cells                                                              *)
(* ------------------------------------------------------------------ *)

NULL == [k |-> "null", s |-> <<>>, n |-> Zero]

Str(t) == [k |-> "s", s |-> t, n |-> Zero]

Num(x) == [k |-> "n", s |-> <<>>, n |-> x]

NumI(i) == Num(<<i, 1>>)

IsStr(c) == c.k = "s"

IsNum(c) == c.k = "n"

IsNull(c) == c.k = "null"

(* ------------------------------------------------------------------ *)
(* Characters and Python's str methods                                *)
(* ------------------------------------------------------------------ *)

Digits == <<"0", "1", "2", "3", "4", "5", "6", "7", "8", "9">>

DigitSet == Range(Digits)

DigitVal(c) == IndexOf(Digits, c) - 1

Whitespace == {" ", "\t", "\n", "\r"}

Upper == <<"A", "B", "C", "D", "E", "F", "G", "H", "I", "J", "K", "L", "M",
           "N", "O", "P", "Q", "R", "S", "T", "U", "V", "W", "X", "Y", "Z">>

Lower == <<"a", "b", "c", "d", "e", "f", "g", "h", "i", "j", "k", "l", "m",
           "n", "o", "p", "q", "r", "s", "t", "u", "v", "w", "x", "y", "z">>

LowerChar(c) == IF c \in Range(Upper) THEN Lower[IndexOf(Upper, c)] ELSE c

\* str.lower()
StrLower(t) == [i \in 1..Len(t) |-> LowerChar(t[i])]

RECURSIVE LStrip(_)
LStrip(t) ==
    IF t # <<>> /\ Head(t) \in Whitespace THEN LStrip(Tail(t)) ELSE t

RECURSIVE RStrip(_)
RStrip(t) ==
    IF t # <<>> /\ t[Len(t)] \in Whitespace
        THEN RStrip(SubSeq(t, 1, Len(t) - 1))
        ELSE t

\* str.strip()
StrStrip(t) == RStrip(LStrip(t))

\* str.replace(c, '') for a one-character c
RemoveChar(t, c) == SelectSeq(t, LAMBDA x : x # c)

\* str.isdigit(), for the ASCII text of this model
IsDigitStr(t) == t # <<>> /\ \A i \in 1..Len(t) : t[i] \in DigitSet

(* ------------------------------------------------------------------ *)
(* float(text) for text over digits, '.' and '-'                      *)
(* ------------------------------------------------------------------ *)

RECURSIVE DigitsValue(_)
DigitsValue(t) ==
    IF t = <<>> THEN 0
    ELSE 10 * DigitsValue(SubSeq(t, 1, Len(t) - 1)) + DigitVal(t[Len(t)])

RECURSIVE Pow10(_)
Pow10(k) == IF k = 0 THEN 1 ELSE 10 * Pow10(k - 1)

DotPositions(t) == {i \in 1..Len(t) : t[i] = "."}

\* an unsigned decimal literal: digits, at most one '.', at least one digit
IsUnsignedDecimal(t) ==
    /\ \A i \in 1..Len(t) : t[i] \in DigitSet \cup {"."}
    /\ Cardinality(DotPositions(t)) <= 1
    /\ \E i \in 1..Len(t) : t[i] \in DigitSet

UnsignedValue(t) ==
    LET plain == RemoveChar(t, ".")
        fracLen == IF DotPositions(t) = {} THEN 0
                   ELSE Len(t) - (CHOOSE i \in DotPositions(t) : TRUE)
    IN  Frac(DigitsValue(plain), Pow10(fracLen))

\* whether float(t) returns (it raises ValueError otherwise)
FloatOk(t) ==
    IF t # <<>> /\ Head(t) = "-" THEN IsUnsignedDecimal(Tail(t))
    ELSE IsUnsignedDecimal(t)

\* the value float(t) returns
FloatValue(t) ==
    IF Head(t) = "-"
        THEN LET v == UnsignedValue(Tail(t)) IN Frac(-v[1], v[2])
        ELSE UnsignedValue(t)

(* ------------------------------------------------------------------ *)
(* Regular expressions: re.search with Python's backtracking order    *)
(* ------------------------------------------------------------------ *)

\* A pattern is a syntax tree of nodes [t, cs, xs, n]:
\*   "set"  one character of cs            "cat"  xs in sequence
\*   "alt"  xs[1] | xs[2] | ...            "opt"  xs[1]?   (greedy)
\*   "star" xs[1]*  (greedy)               "plus" xs[1]+   (greedy)
\*   "grp"  capturing group number n around xs[1]
Cls(S) == [t |-> "set", cs |-> S, xs |-> <<>>, n |-> 0]

Lit(c) == Cls({c})

Cat(xs) == [t |-> "cat", cs |-> {}, xs |-> xs, n |-> 0]

Alt(xs) == [t |-> "alt", cs |-> {}, xs |-> xs, n |-> 0]

Opt(x) == [t |-> "opt", cs |-> {}, xs |-> <<x>>, n |-> 0]

Star(x) == [t |-> "star", cs |-> {}, xs |-> <<x>>, n |-> 0]

Plus(x) == [t |-> "plus", cs |-> {}, xs |-> <<x>>, n |-> 0]

Grp(g, x) == [t |-> "grp", cs |-> {}, xs |-> <<x>>, n |-> g]

\* a literal string
Word(t) == Cat([i \in 1..Len(t) |-> Lit(t[i])])

\* \d and \s
ReDigit == Cls(DigitSet)

ReSpace == Cls(Whitespace)

\* M(nd, s, i, caps): the ways nd matches s from position i (0-based count of
\* characters consumed), in the order the backtracking matcher tries them;
\* each is <<end position, captures>>, a capture being <<>> (the group did
\* not take part) or <<start, end>>.
RECURSIVE M(_, _, _, _)
RECURSIVE MCat(_, _, _, _, _)
RECURSIVE MCatEach(_, _, _, _, _)
RECURSIVE MAlt(_, _, _, _, _)
RECURSIVE MStar(_, _, _, _)
RECURSIVE MStarEach(_, _, _, _)
RECURSIVE MGrpEach(_, _, _)

MGrpEach(rs, g, i) ==
    IF rs = <<>> THEN <<>>
    ELSE << <<Head(rs)[1], [Head(rs)[2] EXCEPT ![g] = <<i, Head(rs)[1]>>]>> >>
         \o MGrpEach(Tail(rs), g, i)

MCatEach(rs, xs, k, s, i) ==
    IF rs = <<>> THEN <<>>
    ELSE MCat(xs, k, s, Head(rs)[1], Head(rs)[2]) \o MCatEach(Tail(rs), xs, k, s, i)

MCat(xs, k, s, i, caps) ==
    IF k > Len(xs) THEN << <<i, caps>> >>
    ELSE MCatEach(M(xs[k], s, i, caps), xs, k + 1, s, i)

MAlt(xs, k, s, i, caps) ==
    IF k > Len(xs) THEN <<>>
    ELSE M(xs[k], s, i, caps) \o MAlt(xs, k + 1, s, i, caps)

\* an iteration that consumed nothing is not repeated
MStarEach(rs, x, s, i) ==
    IF rs = <<>> THEN <<>>
    ELSE (IF Head(rs)[1] > i THEN MStar(x, s, Head(rs)[1], Head(rs)[2]) ELSE <<>>)
         \o MStarEach(Tail(rs), x, s, i)

MStar(x, s, i, caps) ==
    MStarEach(M(x, s, i, caps), x, s, i) \o << <<i, caps>> >>

M(nd, s, i, caps) ==
    CASE nd.t = "set" ->
            IF i < Len(s) /\ s[i + 1] \in nd.cs THEN << <<i + 1, caps>> >> ELSE <<>>
      [] nd.t = "cat" -> MCat(nd.xs, 1, s, i, caps)
      [] nd.t = "alt" -> MAlt(nd.xs, 1, s, i, caps)
      [] nd.t = "opt" -> M(nd.xs[1], s, i, caps) \o << <<i, caps>> >>
      [] nd.t = "star" -> MStar(nd.xs[1], s, i, caps)
      [] nd.t = "plus" -> MStarEach(M(nd.xs[1], s, i, caps), nd.xs[1], s, i - 1)
      [] nd.t = "grp" -> MGrpEach(M(nd.xs[1], s, i, caps), nd.n, i)

\* a compiled pattern: its source text, its tree and its number of capturing groups
Pattern(src, re, ng) == [src |-> src, re |-> re, ng |-> ng]

NoCaptures(p) == [g \in 1..p.ng |-> <<>>]

MatchesAt(p, s, i) == M(p.re, s, i, NoCaptures(p))

MatchStarts(p, s) == {i \in 0..Len(s) : MatchesAt(p, s, i) # <<>>}

\* re.search(pattern, s): None, or the leftmost match, the first the matcher finds
NoMatch == [ok |-> FALSE, start |-> 0, end |-> 0, caps |-> <<>>]

ReSearch(p, s) ==
    IF MatchStarts(p, s) = {} THEN NoMatch
    ELSE LET i == CHOOSE a \in MatchStarts(p, s) : \A b \in MatchStarts(p, s) : a <= b
             r == Head(MatchesAt(p, s, i))
         IN  [ok |-> TRUE, start |-> i, end |-> r[1], caps |-> r[2]]

\* match.groups(): one cell per group, NULL (None) for a group that did not take part
MatchGroups(m, s) ==
    [g \in 1..Len(m.caps) |->
        IF m.caps[g] = <<>> THEN NULL ELSE Str(Slice(s, m.caps[g][1], m.caps[g][2]))]

(* ------------------------------------------------------------------ *)
(* Tables (pandas.DataFrame)                                          *)
(* ------------------------------------------------------------------ *)

\* self.df = None / self.weather_df = None
NoneDf == [none |-> TRUE]

Column(dtype, vals) == [dtype |-> dtype, vals |-> vals]

HasCol(df, name) == name \in Range(df.names)

\* df[name], for a label that is present
Col(df, name) == df.cols[IndexOf(df.names, name)]

\* df[name] = column: replaces the column in place, or appends a new one
SetCol(df, name, column) ==
    IF HasCol(df, name)
        THEN [df EXCEPT !.cols[IndexOf(df.names, name)] = column]
        ELSE [names |-> Append(df.names, name), cols |-> Append(df.cols, column)]

NRows(df) == IF df.cols = <<>> THEN 0 ELSE Len(df.cols[1].vals)

\* Series.notna().any()
AnyNotNull(column) == \E i \in 1..Len(column.vals) : ~IsNull(column.vals[i])

(* ------------------------------------------------------------------ *)
(* Inputs of the weather pipeline                                     *)
(* ------------------------------------------------------------------ *)

\* length of the exhaustively enumerated short messages
MaxMsgLen == 2

\* rows of the weather tables
NumRows == 3

ShortAlphabet == {"1", ".", "-", "m"}

ShortMessages == UNION {[1..n -> ShortAlphabet] : n \in 0..MaxMsgLen}

MsgScenarioB == <<"R", "a", "i", "n", "f", "a", "l", "l", ":", " ", "9", "m", "m", ",", " ", "T", "e", "m", "p", "e", "r", "a", "t", "u", "r", "e", ":", " ", "2", "2", "C">>

MsgRain125 == <<"R", "a", "i", "n", "f", "a", "l", "l", ":", " ", "1", "2", ".", "5", "m", "m">>

MsgZero == <<"R", "a", "i", "n", "f", "a", "l", "l", ":", " ", "0", "m", "m">>

MsgNoData == <<"n", "o", " ", "d", "a", "t", "a">>

MsgVersion == <<"v", "1", ".", "2", ".", "3", " ", "1", "0", "m", "m">>

MsgPollution == <<"P", "o", "l", "l", "u", "t", "i", "o", "n", " ", "a", "t", " ", "-", "3", ".", "5">>

MsgHot == <<"2", "0", "m", "m", " ", "3", "0", "C">>

MsgTen == <<"1", "0", "m", "m">>

NamedMessages ==
    {MsgScenarioB, MsgRain125, MsgZero, MsgNoData, MsgVersion, MsgPollution, MsgHot,
     MsgTen}

\* the messages extract_measurement is called with: text, or a missing
\* value of the Message column (NaN)
Messages == {Str(m) : m \in ShortMessages \cup NamedMessages} \cup {NULL}

\* \d+(\.\d+)? with the fractional part as group g
ReNumber(g) == Cat(<<Plus(ReDigit), Opt(Grp(g, Cat(<<Lit("."), Plus(ReDigit)>>)))>>)

\* -?\d+(\.\d+)? with the fractional part as group g
ReSigned(g) == Cat(<<Opt(Lit("-")), ReNumber(g)>>)

\* (\d+(\.\d+)?)\s?mm    (main, line 265)
RainfallPattern ==
    Pattern("(\\d+(\\.\\d+)?)\\s?mm", Cat(<<Grp(1, ReNumber(2)), Opt(ReSpace), Word(<<"m", "m">>)>>), 2)

\* (\d+(\.\d+)?)\s?C     (main, line 266)
TemperaturePattern ==
    Pattern("(\\d+(\\.\\d+)?)\\s?C", Cat(<<Grp(1, ReNumber(2)), Opt(ReSpace), Lit("C")>>), 2)

\* =\s*(-?\d+(\.\d+)?)|Pollution at \s*(-?\d+(\.\d+)?)     (main, line 267)
PollutionPattern ==
    Pattern("=\\s*(-?\\d+(\\.\\d+)?)|Pollution at \\s*(-?\\d+(\\.\\d+)?)",
            Alt(<<Cat(<<Lit("="), Star(ReSpace), Grp(1, ReSigned(2))>>),
                  Cat(<<Word(<<"P", "o", "l", "l", "u", "t", "i", "o", "n", " ", "a", "t", " ">>), Star(ReSpace), Grp(3, ReSigned(4))>>)>>), 4)

\* \d+(\.\d+)?\s?mm and \d+(\.\d+)?\s?C: the only group is the fractional part
RainfallFractionOnly ==
    Pattern("\\d+(\\.\\d+)?\\s?mm", Cat(<<ReNumber(1), Opt(ReSpace), Word(<<"m", "m">>)>>), 1)

TemperatureFractionOnly ==
    Pattern("\\d+(\\.\\d+)?\\s?C", Cat(<<ReNumber(1), Opt(ReSpace), Lit("C")>>), 1)

\* ([-.\d]+): a reading written with any run of digits, dots and dashes
ReadingPattern == Pattern("([-.\\d]+)", Grp(1, Plus(Cls(DigitSet \cup {".", "-"}))), 1)

Entry(name, pat) == [name |-> name, pat |-> pat]

MainPatterns ==
    <<Entry("Rainfall", RainfallPattern), Entry("Temperature", TemperaturePattern),
      Entry("Pollution_level", PollutionPattern)>>

\* the regex_patterns a processor may be constructed with
PatternSets ==
    { MainPatterns,
      <<Entry("Temperature", TemperaturePattern), Entry("Rainfall", RainfallPattern)>>,
      <<Entry("Rainfall", RainfallFractionOnly),
        Entry("Temperature", TemperatureFractionOnly)>>,
      <<Entry("Reading", ReadingPattern), Entry("Rainfall", RainfallPattern)>>,
      <<Entry("Rainfall", RainfallPattern), Entry("Reading", ReadingPattern)>>,
      <<Entry("Message", RainfallPattern), Entry("Temperature", TemperaturePattern)>>,
      <<>> }

MeasurementTypes ==
    {"Rainfall", "Temperature", "Pollution_level", "Reading", "Message", "Humidity"}

\* a column is as long as the table; a longer table repeats its values
Fit(vals) == [i \in 1..NumRows |-> vals[((i - 1) % Len(vals)) + 1]]

MessageColumn(msgs) == Column("object", Fit(msgs))

ScenarioMessages == MessageColumn(<<Str(MsgScenarioB), Str(MsgRain125), Str(MsgNoData)>>)

ZeroMessages == MessageColumn(<<Str(MsgZero), Str(MsgNoData), Str(MsgHot)>>)

SilentMessages == MessageColumn(<<Str(MsgNoData), Str(MsgNoData), Str(MsgNoData)>>)

VersionMessages == MessageColumn(<<Str(MsgVersion), Str(MsgRain125), Str(MsgPollution)>>)

MissingMessages == MessageColumn(<<Str(MsgRain125), NULL, Str(MsgHot)>>)

StationNumbers == Column("float64", Fit(<<NumI(1), NumI(1), NumI(2)>>))

StationLetters == Column("object", Fit(<<Str(<<"A">>), Str(<<"B">>), Str(<<"B">>)>>))

OldRainfall == Column("float64", Fit(<<NumI(5), NULL, NumI(7)>>))

Table(names, cols) == [names |-> names, cols |-> cols]

\* the tables read_from_web_CSV may return
WeatherTables ==
    { Table(<<"Weather_station_ID", "Message">>, <<StationNumbers, ScenarioMessages>>),
      Table(<<"Message", "Station">>, <<ZeroMessages, StationLetters>>),
      Table(<<"Station_ID", "Weather_station", "Message">>,
            <<StationNumbers, StationLetters, ScenarioMessages>>),
      Table(<<"Message">>, <<SilentMessages>>),
      Table(<<"Message">>, <<ScenarioMessages>>),
      Table(<<"Station", "Rainfall", "Message">>,
            <<StationLetters, OldRainfall, ZeroMessages>>),
      Table(<<"Station">>, <<StationNumbers>>),
      Table(<<"Weather_station_ID", "Message">>, <<StationNumbers, VersionMessages>>),
      Table(<<"Message", "Station">>, <<MissingMessages, StationLetters>>),
      Table(<<"Station", "Message">>,
            <<Column("object", Fit(<<Str(<<"A">>)>>)),
              MessageColumn(<<Str(MsgTen), Str(MsgNoData), Str(MsgHot)>>)>>) }

(* ------------------------------------------------------------------ *)
(* re.search over the texts and patterns of the model, computed once  *)
(* ------------------------------------------------------------------ *)

Patterns ==
    {RainfallPattern, TemperaturePattern, PollutionPattern,
     RainfallFractionOnly, TemperatureFractionOnly, ReadingPattern}

Texts == ShortMessages \cup NamedMessages

SearchTable ==
    [q \in {<<p.src, s>> : p \in Patterns, s \in Texts} |->
        ReSearch(CHOOSE p \in Patterns : p.src = q[1], q[2])] @@ <<>>

\* re.search(pattern, s)
re_search(p, s) ==
    IF <<p.src, s>> \in DOMAIN SearchTable THEN SearchTable[<<p.src, s>>]
    ELSE ReSearch(p, s)

(* ------------------------------------------------------------------ *)
(* WeatherDataProcessor                                               *)
(* ------------------------------------------------------------------ *)

\* The outcome of a call: the exception it raised ("none" when it returned)
\* and the value it returned.
Returned(v) == [exc |-> "none", val |-> v]

Raised(e) == [exc |-> e, val |-> NULL]

\* self.regex_patterns is a dict in insertion order: a sequence of
\* [name, pat] with distinct names
PatternNames(patterns) == [k \in 1..Len(patterns) |-> patterns[k].name]

PatternOf(patterns, name) ==
    patterns[CHOOSE k \in 1..Len(patterns) : patterns[k].name = name].pat

\* the test of line 135: group and group.replace('.', '').replace('-', '').isdigit()
GroupContainsNumber(g) ==
    /\ IsStr(g)
    /\ g.s # <<>>
    /\ IsDigitStr(RemoveChar(RemoveChar(g.s, "."), "-"))

\* return None (line 137)
NoValue == Returned(NULL)

\* the loop over match.groups() run from the last group to the first
RECURSIVE LastNumberGroup(_, _)
LastNumberGroup(groups, k) ==
    LET g == Len(groups) + 1 - k
    IN  IF k > Len(groups) THEN NoValue
        ELSE IF GroupContainsNumber(groups[g])
            THEN IF FloatOk(groups[g].s)
                    THEN Returned(Num(FloatValue(groups[g].s)))
                    ELSE Raised("ValueError")
            ELSE LastNumberGroup(groups, k + 1)

\* for group in match.groups(): ... return float(group)
RECURSIVE FirstNumberGroup(_, _)
FirstNumberGroup(groups, k) ==
    IF k > Len(groups) THEN NoValue
    ELSE IF GroupContainsNumber(groups[k])
        THEN IF FloatOk(groups[k].s)
                THEN Returned(Num(FloatValue(groups[k].s)))
                ELSE Raised("ValueError")
        ELSE FirstNumberGroup(groups, k + 1)

\* extract_measurement(self, message, measurement_type)
extract_measurement(patterns, message, measurement_type) ==
    IF measurement_type \notin Range(PatternNames(patterns)) THEN Returned(NULL)
    ELSE IF ~IsStr(message) THEN Raised("TypeError")
    ELSE LET match == re_search(PatternOf(patterns, measurement_type), message.s)
         IN  IF match.ok
                THEN FirstNumberGroup(MatchGroups(match, message.s), 1)
                ELSE NoValue

\* the Series that Series.apply builds from floats and None: float64 with NaN
\* when some element is a float, object (all None) otherwise
AppliedColumn(vals) ==
    Column(IF \E i \in 1..Len(vals) : IsNum(vals[i]) THEN "float64" ELSE "object", vals)

\* the loop of process_messages from its k-th measurement type on; apply
\* visits the rows in order and the first exception ends the call, the
\* columns assigned so far staying in the table
RECURSIVE ProcessFrom(_, _, _)
ProcessFrom(df, patterns, k) ==
    IF k > Len(patterns) THEN [exc |-> "none", df |-> df]
    ELSE IF ~HasCol(df, "Message") THEN [exc |-> "KeyError", df |-> df]
    ELSE LET msgs == Col(df, "Message").vals
             res == [i \in 1..Len(msgs) |->
                        extract_measurement(patterns, msgs[i], patterns[k].name)]
             bad == {i \in 1..Len(msgs) : res[i].exc # "none"}
         IN  IF bad # {}
                THEN [exc |-> res[CHOOSE i \in bad : \A j \in bad : i <= j].exc,
                      df |-> df]
                ELSE ProcessFrom(
                        SetCol(df, patterns[k].name,
                               AppliedColumn([i \in 1..Len(msgs) |-> res[i].val])),
                        patterns, k + 1)

\* process_messages(self), for a loaded table
process_messages(df, patterns) == ProcessFrom(df, patterns, 1)

possible_names ==
    <<"Weather_station", "Station", "weather_station", "Weather_Station", "Station_ID">>

\* no station column: the fallback of lines 182-188 leaves station_column
\* None for a table without columns
NoColumn == "<None>"

RECURSIVE FirstPossibleName(_, _)
FirstPossibleName(df, k) ==
    IF k > Len(possible_names) THEN NoColumn
    ELSE IF HasCol(df, possible_names[k]) THEN possible_names[k]
    ELSE FirstPossibleName(df, k + 1)

\* the search run over the table's columns instead of over possible_names
StationColumnInTableOrder(df) ==
    LET hits == {i \in 1..Len(df.names) : df.names[i] \in Range(possible_names)}
    IN  IF hits # {} THEN df.names[CHOOSE i \in hits : \A j \in hits : i <= j]
        ELSE IF Len(df.names) > 0 THEN df.names[1]
        ELSE NoColumn

\* station_column as chosen by lines 173-188
StationColumn(df) ==
    IF FirstPossibleName(df, 1) # NoColumn THEN FirstPossibleName(df, 1)
    ELSE IF Len(df.names) > 0 THEN df.names[1]
    ELSE NoColumn

\* measurement_columns of lines 190-196
MeasurementColumns(df, patterns) ==
    SelectSeq(PatternNames(patterns),
              LAMBDA name : HasCol(df, name) /\ AnyNotNull(Col(df, name)))

RECURSIVE FracSum(_)
FracSum(q) == IF q = <<>> THEN Zero ELSE FracAdd(Head(q), FracSum(Tail(q)))

\* the mean with a missing value counted as a zero
MeanCellNullAsZero(cells) ==
    LET total == FracSum([i \in 1..Len(cells) |->
                            IF IsNum(cells[i]) THEN cells[i].n ELSE Zero])
    IN  IF cells = <<>> THEN NULL
        ELSE Num(Frac(total[1], total[2] * Len(cells)))

\* the mean of the numbers of a group, NaN for a group without any
MeanCell(cells) ==
    LET nums == SelectSeq(cells, LAMBDA c : IsNum(c))
        total == FracSum([i \in 1..Len(nums) |-> nums[i].n])
    IN  IF nums = <<>> THEN NULL
        ELSE Num(Frac(total[1], total[2] * Len(nums)))

\* the rows of a group, in row order
GroupRows(df, by, key) ==
    SelectSeq([i \in 1..NRows(df) |-> i], LAMBDA i : Col(df, by).vals[i] = key)

\* df.groupby(by)[mcols].mean(): one row per key that is not null
GroupByMean(df, by, mcols) ==
    LET keys == {c \in Range(Col(df, by).vals) : ~IsNull(c)}
    IN  [by |-> by,
         keys |-> keys,
         columns |-> mcols,
         mean |-> [key \in keys |->
                     [name \in Range(mcols) |->
                        LET rows == GroupRows(df, by, key)
                        IN  MeanCell([j \in 1..Len(rows) |->
                                        Col(df, name).vals[rows[j]]])]]]

\* mean() raises TypeError on a selected column that holds text; the
\* except clause of lines 211-214 swallows it
MeanRaises(df, mcols) ==
    \E name \in Range(mcols) : \E c \in Range(Col(df, name).vals) : IsStr(c)

\* whether calculate_means assigns self.weather_df_mean
AssignsMean(df, patterns) ==
    /\ MeasurementColumns(df, patterns) # <<>>
    /\ StationColumn(df) # NoColumn
    /\ ~MeanRaises(df, MeasurementColumns(df, patterns))

(* ------------------------------------------------------------------ *)
(* FieldDataProcessor                                                 *)
(* ------------------------------------------------------------------ *)

\* self.columns_to_rename is a dict in insertion order: a sequence of
\* [key, value]; rename_columns reads its first key and its first value
column1(columns_to_rename) == columns_to_rename[1].key

column2(columns_to_rename) == columns_to_rename[1].value

\* "__temp_name_for_swap__" followed by 0, 1, 2, ... underscores
TempNames ==
    <<"__temp_name_for_swap__", "__temp_name_for_swap___",
      "__temp_name_for_swap____", "__temp_name_for_swap_____">>

\* while temp_name in self.df.columns: temp_name += "_"
RECURSIVE TempNameFrom(_, _)
TempNameFrom(df, k) ==
    IF HasCol(df, TempNames[k]) THEN TempNameFrom(df, k + 1) ELSE TempNames[k]

temp_name(df) == TempNameFrom(df, 1)

\* df.rename(columns=mapping): a label that is a key of the mapping is
\* replaced, every other label is kept, a key that is no label is ignored
Rename(df, mapping) ==
    [df EXCEPT !.names = [i \in 1..Len(df.names) |->
        IF df.names[i] \in DOMAIN mapping THEN mapping[df.names[i]] ELSE df.names[i]]]

\* the dict literal {column1: temp_name, column2: column1}: with equal keys
\* the later item wins
FirstRenameDict(c1, c2, temp) ==
    IF c1 = c2 THEN (c1 :> c1) ELSE (c1 :> temp) @@ (c2 :> c1)

\* the swap as two renames without the buffer name
SwapWithoutBuffer(df, c1, c2) == Rename(Rename(df, c1 :> c2), c2 :> c1)

\* the swap with its second rename left out
SwapLeavesBuffer(df, c1, c2) == Rename(df, FirstRenameDict(c1, c2, temp_name(df)))

\* lines 139-140
SwapColumns(df, c1, c2) ==
    Rename(Rename(df, FirstRenameDict(c1, c2, temp_name(df))), temp_name(df) :> c2)

\* pd.to_numeric(..., errors='coerce') of one value
ToNumericCell(c) ==
    IF IsStr(c)
        THEN IF FloatOk(c.s) THEN Num(FloatValue(c.s)) ELSE NULL
        ELSE c

to_numeric(column) ==
    Column("float64", [i \in 1..Len(column.vals) |-> ToNumericCell(column.vals[i])])

\* rename_columns(self): the table it leaves in self.df and what it raises
rename_columns(df, columns_to_rename) ==
    IF df = NoneDf THEN [exc |-> "AttributeError", df |-> df]
    ELSE LET swapped == SwapColumns(df, column1(columns_to_rename),
                                    column2(columns_to_rename))
         IN  IF ~HasCol(swapped, "Annual_yield")
                THEN [exc |-> "KeyError", df |-> swapped]
                ELSE [exc |-> "none",
                      df |-> SetCol(swapped, "Annual_yield",
                                    to_numeric(Col(swapped, "Annual_yield")))]

\* Series.abs(): it raises TypeError on an element that is no number
AbsRaises(column) ==
    column.dtype = "object" /\ \E i \in 1..Len(column.vals) : ~IsNum(column.vals[i])

AbsColumn(column) ==
    [column EXCEPT !.vals = [i \in 1..Len(column.vals) |->
        IF IsNum(column.vals[i]) THEN Num(FracAbs(column.vals[i].n)) ELSE column.vals[i]]]

\* the normalization without .str.lower()
NormalizeNoLower(c) == IF IsStr(c) THEN Str(StrStrip(c.s)) ELSE NULL

\* .str.strip().str.lower() of one element: NaN for what is no str
Normalize(c) == IF IsStr(c) THEN Str(StrLower(StrStrip(c.s))) ELSE NULL

\* self.values_to_rename.get(crop): None for a token that is no key
CorrectNoDefault(values_to_rename, c) ==
    IF IsStr(c) /\ c.s \in DOMAIN values_to_rename THEN Str(values_to_rename[c.s]) ELSE NULL

\* self.values_to_rename.get(crop, crop); the dict is a function on text
Correct(values_to_rename, c) ==
    IF IsStr(c) /\ c.s \in DOMAIN values_to_rename THEN Str(values_to_rename[c.s]) ELSE c

CorrectColumn(column, values_to_rename) ==
    Column("object", [i \in 1..Len(column.vals) |->
                        Correct(values_to_rename, Normalize(column.vals[i]))])

\* apply_corrections(self, column_name='Crop_type', abs_column='Elevation')
apply_corrections(df, values_to_rename, column_name, abs_column) ==
    IF df = NoneDf THEN [exc |-> "TypeError", df |-> df]
    ELSE IF ~HasCol(df, abs_column) THEN [exc |-> "KeyError", df |-> df]
    ELSE IF AbsRaises(Col(df, abs_column)) THEN [exc |-> "TypeError", df |-> df]
    ELSE LET fixed == SetCol(df, abs_column, AbsColumn(Col(df, abs_column)))
         IN  IF ~HasCol(fixed, column_name) THEN [exc |-> "KeyError", df |-> fixed]
             ELSE IF Col(fixed, column_name).dtype # "object"
                THEN [exc |-> "AttributeError", df |-> fixed]
             ELSE [exc |-> "none",
                   df |-> SetCol(fixed, column_name,
                                 CorrectColumn(Col(fixed, column_name), values_to_rename))]

(* ------------------------------------------------------------------ *)
(* Inputs of the field pipeline                                       *)
(* ------------------------------------------------------------------ *)

\* calls recorded after an ingestion
MaxFieldCalls == 3

Pair(k, v) == [key |-> k, value |-> v]

\* the columns_to_rename a processor may be constructed with
RenameDicts ==
    { <<Pair("Annual_yield", "Crop_type"), Pair("Crop_type", "Annual_yield")>>,
      <<Pair("Crop_type", "Annual_yield")>>,
      <<Pair("Elevation", "__temp_name_for_swap__")>>,
      <<Pair("Yield", "Crop")>>,
      <<Pair("Crop_type", "Crop_type")>> }

TxtCassaval == <<"c", "a", "s", "s", "a", "v", "a", "l">>

TxtCassava == <<"c", "a", "s", "s", "a", "v", "a">>

TxtWheatn == <<"w", "h", "e", "a", "t", "n">>

TxtWheat == <<"w", "h", "e", "a", "t">>

TxtTeaa == <<"t", "e", "a", "a">>

TxtTea == <<"t", "e", "a">>

TxtChai == <<"c", "h", "a", "i">>

TxtPaddedTea == <<" ", "T", "e", "a">>

\* the values_to_rename a processor may be constructed with
ValueMaps ==
    { (TxtCassaval :> TxtCassava) @@ (TxtWheatn :> TxtWheat) @@ (TxtTeaa :> TxtTea),
      (TxtTeaa :> TxtTea) @@ (TxtTea :> TxtChai),
      (TxtTeaa :> TxtPaddedTea),
      <<>> }

FieldIds == Column("float64", <<NumI(1), NumI(2)>>)

\* crop names, stored under Annual_yield by the swapped survey
CropTexts == Column("object", <<Str(<<" ", "C", "a", "s", "s", "a", "v", "a", "l", " ">>), Str(<<"T", "E", "A", "A">>)>>)

\* yields, stored under Crop_type: as text with a contaminated value, or as floats
YieldTexts == Column("object", <<Str(<<"1", "5", "0", ".", "0">>), Str(<<"n", "/", "a">>)>>)

YieldFloats == Column("float64", <<NumI(150), Num(<<5, 2>>)>>)

Elevations == Column("float64", <<Num(<<-123, 10>>), NumI(40)>>)

ElevationTexts == Column("object", <<Str(<<"1", "2">>), Str(<<"h", "i", "g", "h">>)>>)

Spare == Column("object", <<Str(<<"x">>), NULL>>)

\* the tables query_data may return
FieldTables ==
    { Table(<<"Field_ID", "Elevation", "Annual_yield", "Crop_type">>,
            <<FieldIds, Elevations, CropTexts, YieldTexts>>),
      Table(<<"Field_ID", "Crop_type", "Elevation", "Annual_yield">>,
            <<FieldIds, YieldFloats, Elevations, CropTexts>>),
      Table(<<"__temp_name_for_swap__", "Elevation", "Annual_yield", "Crop_type">>,
            <<Spare, Elevations, CropTexts, YieldTexts>>),
      Table(<<"__temp_name_for_swap___", "__temp_name_for_swap__", "Annual_yield",
              "Crop_type", "Elevation">>,
            <<FieldIds, Spare, CropTexts, YieldFloats, Elevations>>),
      Table(<<"Field_ID", "Elevation", "Annual_yield">>,
            <<FieldIds, Elevations, CropTexts>>),
      Table(<<"Field_ID", "Elevation", "Crop_type">>,
            <<FieldIds, Elevations, YieldTexts>>),
      Table(<<"Field_ID", "Annual_yield", "Crop_type">>,
            <<FieldIds, CropTexts, YieldTexts>>),
      Table(<<"Field_ID", "Elevation", "Annual_yield", "Crop_type">>,
            <<FieldIds, ElevationTexts, CropTexts, YieldFloats>>) }

(* ------------------------------------------------------------------ *)
(* FieldDataProcessor.process                                          *)
(* ------------------------------------------------------------------ *)

\* the tables read_from_web_CSV may return for the field-to-station mapping:
\* every field matched once; an index column saved with the file, field 1
\* unmatched and field 2 matched twice; no Field_ID column; a column with a
\* name the field table has too
MappingTables ==
    { Table(<<"Field_ID", "Weather_station">>,
            <<Column("float64", <<NumI(1), NumI(2)>>),
              Column("float64", <<NumI(0), NumI(3)>>)>>),
      Table(<<"Unnamed: 0", "Field_ID", "Weather_station">>,
            <<Column("float64", <<NumI(0), NumI(1)>>),
              Column("float64", <<NumI(2), NumI(2)>>),
              Column("float64", <<NumI(4), NumI(1)>>)>>),
      Table(<<"Weather_station">>, <<Column("float64", <<NumI(0), NumI(3)>>)>>),
      Table(<<"Field_ID", "Elevation">>,
            <<Column("float64", <<NumI(2), NumI(1)>>),
              Column("float64", <<NumI(7), NumI(8)>>)>>) }

\* the rows of a left join, in the order of the left table and then of the
\* right: <<left row, right row>>, the right row 0 for a left row without
\* a match
RECURSIVE MergeRows(_, _, _)
MergeRows(lkeys, rkeys, i) ==
    IF i > Len(lkeys) THEN <<>>
    ELSE LET hits == SelectSeq([j \in 1..Len(rkeys) |-> j],
                               LAMBDA j : rkeys[j] = lkeys[i])
         IN  (IF hits = <<>> THEN <<<<i, 0>>>>
              ELSE [k \in 1..Len(hits) |-> <<i, hits[k]>>])
             \o MergeRows(lkeys, rkeys, i + 1)

\* left.merge(right, on=on, how='left'): KeyError when the key is not a
\* column of both; a name the two tables share besides the key gets the
\* suffixes _x and _y
merge(left, right, on) ==
    IF ~HasCol(left, on) \/ ~HasCol(right, on)
        THEN [exc |-> "KeyError", df |-> left]
    ELSE LET shared == (Range(left.names) \cap Range(right.names)) \ {on}
             rows == MergeRows(Col(left, on).vals, Col(right, on).vals, 1)
             others == SelectSeq([k \in 1..Len(right.names) |-> k],
                                 LAMBDA k : right.names[k] # on)
             lnames == [k \in 1..Len(left.names) |->
                          IF left.names[k] \in shared
                              THEN left.names[k] \o "_x" ELSE left.names[k]]
             rnames == [k \in 1..Len(others) |->
                          IF right.names[others[k]] \in shared
                              THEN right.names[others[k]] \o "_y"
                              ELSE right.names[others[k]]]
             lcols == [k \in 1..Len(left.names) |->
                         Column(left.cols[k].dtype,
                                [p \in 1..Len(rows) |->
                                    left.cols[k].vals[rows[p][1]]])]
             rcols == [k \in 1..Len(others) |->
                         Column(right.cols[others[k]].dtype,
                                [p \in 1..Len(rows) |->
                                    IF rows[p][2] = 0 THEN NULL
                                    ELSE right.cols[others[k]].vals[rows[p][2]]])]
         IN  [exc |-> "none", df |-> Table(lnames \o rnames, lcols \o rcols)]

\* lines 211-212: drop the column "Unnamed: 0" if it is there
drop_unnamed(df) ==
    LET keep == SelectSeq([k \in 1..Len(df.names) |-> k],
                          LAMBDA k : df.names[k] # "Unnamed: 0")
    IN  Table([k \in 1..Len(keep) |-> df.names[keep[k]]],
              [k \in 1..Len(keep) |-> df.cols[keep[k]]])

\* a pipeline that goes on to the fetch and the join after a failed
\* correction
ProcessPastFailure(old, ingested, mapping, torename, tocorrect) ==
    LET S(op, exc) == [op |-> op, exc |-> exc]
        r1 == rename_columns(ingested, torename)
        r2 == apply_corrections(r1.df, tocorrect, "Crop_type", "Elevation")
        r3 == merge(r2.df, mapping, "Field_ID")
        out == drop_unnamed(r3.df)
        s1 == <<S("ingest_sql_data", "none")>>
        s2 == Append(s1, S("rename_columns", "none"))
        s3 == Append(s2, S("apply_corrections", r2.exc))
        s4 == Append(s3, S("weather_station_mapping", "none"))
        Abort(exc, table, log, corrected, fetched) ==
            [exc |-> exc, df |-> table, ret |-> NoneDf, stages |-> log,
             corrected |-> corrected, mapping |-> fetched]
    IN  IF ingested = NoneDf
            THEN Abort("Exception", old, <<S("ingest_sql_data", "Exception")>>,
                       NoneDf, NoneDf)
        ELSE IF r1.exc # "none"
            THEN Abort(r1.exc, r1.df, Append(s1, S("rename_columns", r1.exc)),
                       NoneDf, NoneDf)
        ELSE IF mapping = NoneDf
            THEN Abort("Exception", r2.df,
                       Append(s3, S("weather_station_mapping", "Exception")),
                       r2.df, NoneDf)
        ELSE IF r3.exc # "none"
            THEN Abort(r3.exc, r2.df, Append(s4, S("merge", r3.exc)), r2.df, mapping)
        ELSE [exc |-> "none", df |-> out, ret |-> out,
              stages |-> s4 \o <<S("merge", "none"), S("drop", "none"),
                                 S("return", "none")>>,
              corrected |-> r2.df, mapping |-> mapping]

\* process(): the stages it goes through with their outcomes, self.df after
\* it, the exception it raises ("none" when it returns) and what it returns.
\* ingested and mapping are what query_data and read_from_web_CSV give,
\* NoneDf when they raise.
process(old, ingested, mapping, torename, tocorrect) ==
    LET S(op, exc) == [op |-> op, exc |-> exc]
        r1 == rename_columns(ingested, torename)
        r2 == apply_corrections(r1.df, tocorrect, "Crop_type", "Elevation")
        r3 == merge(r2.df, mapping, "Field_ID")
        out == drop_unnamed(r3.df)
        s1 == <<S("ingest_sql_data", "none")>>
        s2 == Append(s1, S("rename_columns", "none"))
        s3 == Append(s2, S("apply_corrections", "none"))
        s4 == Append(s3, S("weather_station_mapping", "none"))
        Abort(exc, table, log, corrected, fetched) ==
            [exc |-> exc, df |-> table, ret |-> NoneDf, stages |-> log,
             corrected |-> corrected, mapping |-> fetched]
    IN  IF ingested = NoneDf
            THEN Abort("Exception", old, <<S("ingest_sql_data", "Exception")>>,
                       NoneDf, NoneDf)
        ELSE IF r1.exc # "none"
            THEN Abort(r1.exc, r1.df, Append(s1, S("rename_columns", r1.exc)),
                       NoneDf, NoneDf)
        ELSE IF r2.exc # "none"
            THEN Abort(r2.exc, r2.df, Append(s2, S("apply_corrections", r2.exc)),
                       NoneDf, NoneDf)
        ELSE IF mapping = NoneDf
            THEN Abort("Exception", r2.df,
                       Append(s3, S("weather_station_mapping", "Exception")),
                       r2.df, NoneDf)
        ELSE IF r3.exc # "none"
            THEN Abort(r3.exc, r2.df, Append(s4, S("merge", r3.exc)), r2.df, mapping)
        ELSE [exc |-> "none", df |-> out, ret |-> out,
              stages |-> s4 \o <<S("merge", "none"), S("drop", "none"),
                                 S("return", "none")>>,
              corrected |-> r2.df, mapping |-> mapping]

(* ------------------------------------------------------------------ *)
(* State                                                              *)
(* ------------------------------------------------------------------ *)

VARIABLES
    regex_patterns,     \* WeatherDataProcessor.regex_patterns
    weather_df,         \* WeatherDataProcessor.weather_df
    weather_df_mean,    \* WeatherDataProcessor.weather_df_mean
    w_call,             \* the last call on the weather processor and its outcome
    w_before,           \* the table the last process_messages started from
    w_extract,          \* the last extract_measurement call and its outcome
    w_assigned          \* whether the last call assigned self.weather_df_mean

wvars ==
    <<regex_patterns, weather_df, weather_df_mean, w_call, w_before, w_extract,
      w_assigned>>

VARIABLES
    columns_to_rename,  \* FieldDataProcessor.columns_to_rename
    values_to_rename,   \* FieldDataProcessor.values_to_rename
    df,                 \* FieldDataProcessor.df
    f_call,             \* the last call on the field processor and its outcome
    f_orig,             \* the table as the last ingestion loaded it
    f_before,           \* self.df before the last call
    f_calls,            \* the calls since the last ingestion, oldest first
    f_run               \* the stages the last process() went through

fvars ==
    <<columns_to_rename, values_to_rename, df, f_call, f_orig, f_before, f_calls,
      f_run>>

vars == <<wvars, fvars>>

\* weather_df_mean is not an attribute until calculate_means assigns it
NoMean == [unset |-> TRUE]

Call(op, exc, ret) == [op |-> op, exc |-> exc, ret |-> ret]

NoExtract == [message |-> NULL, type |-> "", exc |-> "none", val |-> NULL]

\* process() has not been called
NoRun == [stages |-> <<>>, corrected |-> NoneDf, mapping |-> NoneDf]

\* no field processor is in use
FieldIdle ==
    /\ columns_to_rename = <<>>
    /\ values_to_rename = <<>>
    /\ df = NoneDf
    /\ f_call = Call("", "none", NoneDf)
    /\ f_orig = NoneDf
    /\ f_before = NoneDf
    /\ f_calls = <<>>
    /\ f_run = NoRun

\* no weather processor is in use
WeatherIdle ==
    /\ regex_patterns = <<>>
    /\ weather_df = NoneDf
    /\ weather_df_mean = NoMean
    /\ w_call = Call("", "none", NoneDf)
    /\ w_before = NoneDf
    /\ w_extract = NoExtract
    /\ w_assigned = FALSE

\* WeatherDataProcessor.__init__
InitWeather ==
    /\ FieldIdle
    /\ regex_patterns \in PatternSets
    /\ weather_df = NoneDf
    /\ weather_df_mean = NoMean
    /\ w_call = Call("__init__", "none", NoneDf)
    /\ w_before = NoneDf
    /\ w_extract = NoExtract
    /\ w_assigned = FALSE

\* weather_station_mapping(): read_from_web_CSV returns a table
WeatherStationMapping ==
    /\ \E t \in WeatherTables :
        /\ weather_df' = t
        /\ w_call' = Call("weather_station_mapping", "none", t)
    /\ w_before' = NoneDf
    /\ w_assigned' = FALSE
    /\ UNCHANGED <<fvars, regex_patterns, weather_df_mean, w_extract>>

\* weather_station_mapping(): read_from_web_CSV raises, and so does the call
WeatherStationMappingFails ==
    /\ w_call' = Call("weather_station_mapping", "Exception", NoneDf)
    /\ w_before' = NoneDf
    /\ w_assigned' = FALSE
    /\ UNCHANGED <<fvars, regex_patterns, weather_df, weather_df_mean, w_extract>>

\* extract_measurement(message, measurement_type)
ExtractMeasurement ==
    /\ \E message \in Messages, type \in MeasurementTypes :
        LET r == extract_measurement(regex_patterns, message, type)
        IN  /\ w_extract' = [message |-> message, type |-> type,
                             exc |-> r.exc, val |-> r.val]
            /\ w_call' = Call("extract_measurement", r.exc, NoneDf)
    /\ w_assigned' = FALSE
    /\ UNCHANGED <<fvars, regex_patterns, weather_df, weather_df_mean, w_before>>

\* process_messages()
ProcessMessages ==
    /\ IF weather_df = NoneDf
        THEN /\ w_call' = Call("process_messages", "none", NoneDf)
             /\ w_before' = NoneDf
             /\ UNCHANGED weather_df
        ELSE LET r == process_messages(weather_df, regex_patterns)
             IN  /\ weather_df' = r.df
                 /\ w_before' = weather_df
                 /\ w_call' = Call("process_messages", r.exc, NoneDf)
    /\ w_assigned' = FALSE
    /\ UNCHANGED <<fvars, regex_patterns, weather_df_mean, w_extract>>

\* whether calculate_means() on this table assigns self.weather_df_mean
Assigns(table, patterns) == table # NoneDf /\ AssignsMean(table, patterns)

\* self.weather_df_mean after calculate_means() on this table
MeanAfter(table, patterns, old) ==
    IF Assigns(table, patterns)
        THEN GroupByMean(table, StationColumn(table), MeasurementColumns(table, patterns))
        ELSE old

\* calculate_means(): it returns None on every path
CalculateMeans ==
    /\ weather_df_mean' = MeanAfter(weather_df, regex_patterns, weather_df_mean)
    /\ w_assigned' = Assigns(weather_df, regex_patterns)
    /\ w_call' = Call("calculate_means", "none", NoneDf)
    /\ UNCHANGED <<fvars, regex_patterns, weather_df, w_before, w_extract>>

\* process(): the fetch raises and process re-raises
ProcessWeatherFetchFails ==
    /\ w_call' = Call("process", "Exception", NoneDf)
    /\ w_before' = NoneDf
    /\ w_assigned' = FALSE
    /\ UNCHANGED <<fvars, regex_patterns, weather_df, weather_df_mean, w_extract>>

\* process() with a skipped aggregation treated as a failure of the pipeline
ProcessWeatherAbortsOnSkip ==
    /\ \E t \in WeatherTables :
        LET r == process_messages(t, regex_patterns)
        IN  /\ weather_df' = r.df
            /\ w_before' = t
            /\ IF r.exc # "none"
                THEN /\ w_call' = Call("process", r.exc, NoneDf)
                     /\ w_assigned' = FALSE
                     /\ UNCHANGED weather_df_mean
                ELSE IF ~Assigns(r.df, regex_patterns)
                THEN /\ w_call' = Call("process", "Exception", NoneDf)
                     /\ w_assigned' = FALSE
                     /\ UNCHANGED weather_df_mean
                ELSE /\ w_call' = Call("process", "none", r.df)
                     /\ w_assigned' = TRUE
                     /\ weather_df_mean' = MeanAfter(r.df, regex_patterns, weather_df_mean)
    /\ UNCHANGED <<fvars, regex_patterns, w_extract>>

\* process(): fetch, process_messages, calculate_means, return self.weather_df
ProcessWeather ==
    /\ \E t \in WeatherTables :
        LET r == process_messages(t, regex_patterns)
        IN  /\ weather_df' = r.df
            /\ w_before' = t
            /\ IF r.exc # "none"
                THEN /\ w_call' = Call("process", r.exc, NoneDf)
                     /\ w_assigned' = FALSE
                     /\ UNCHANGED weather_df_mean
                ELSE /\ w_call' = Call("process", "none", r.df)
                     /\ w_assigned' = Assigns(r.df, regex_patterns)
                     /\ weather_df_mean' = MeanAfter(r.df, regex_patterns, weather_df_mean)
    /\ UNCHANGED <<fvars, regex_patterns, w_extract>>

\* FieldDataProcessor.__init__
InitField ==
    /\ WeatherIdle
    /\ columns_to_rename \in RenameDicts
    /\ values_to_rename \in ValueMaps
    /\ df = NoneDf
    /\ f_call = Call("__init__", "none", NoneDf)
    /\ f_orig = NoneDf
    /\ f_before = NoneDf
    /\ f_calls = <<>>
    /\ f_run = NoRun

\* ingest_sql_data(): query_data returns a table
IngestSqlData ==
    /\ \E t \in FieldTables :
        /\ df' = t
        /\ f_orig' = t
        /\ f_call' = Call("ingest_sql_data", "none", t)
    /\ f_before' = df
    /\ f_calls' = <<>>
    /\ UNCHANGED <<wvars, columns_to_rename, values_to_rename, f_run>>

\* ingest_sql_data(): create_db_engine or query_data raises, and so does the call
IngestSqlDataFails ==
    /\ f_call' = Call("ingest_sql_data", "Exception", NoneDf)
    /\ f_before' = df
    /\ UNCHANGED <<wvars, columns_to_rename, values_to_rename, df, f_orig, f_calls, f_run>>

Record(op, exc) == [op |-> op, exc |-> exc]

\* rename_columns()
RenameColumns ==
    /\ Len(f_calls) < MaxFieldCalls
    /\ LET r == rename_columns(df, columns_to_rename)
       IN  /\ df' = r.df
           /\ f_call' = Call("rename_columns", r.exc, NoneDf)
           /\ f_calls' = Append(f_calls, Record("rename_columns", r.exc))
    /\ f_before' = df
    /\ UNCHANGED <<wvars, columns_to_rename, values_to_rename, f_orig, f_run>>

\* apply_corrections()
ApplyCorrections ==
    /\ Len(f_calls) < MaxFieldCalls
    /\ LET r == apply_corrections(df, values_to_rename, "Crop_type", "Elevation")
       IN  /\ df' = r.df
           /\ f_call' = Call("apply_corrections", r.exc, NoneDf)
           /\ f_calls' = Append(f_calls, Record("apply_corrections", r.exc))
    /\ f_before' = df
    /\ UNCHANGED <<wvars, columns_to_rename, values_to_rename, f_orig, f_run>>

\* process(): query_data and read_from_web_CSV return a table or raise
ProcessField ==
    /\ \E ingested \in FieldTables \cup {NoneDf},
          mapping \in MappingTables \cup {NoneDf} :
        LET r == process(df, ingested, mapping, columns_to_rename, values_to_rename)
        IN  /\ df' = r.df
            /\ f_call' = Call("process", r.exc, r.ret)
            /\ f_run' = [stages |-> r.stages, corrected |-> r.corrected,
                         mapping |-> r.mapping]
            /\ f_orig' = IF ingested = NoneDf THEN f_orig ELSE ingested
    /\ f_before' = df
    /\ f_calls' = <<>>
    /\ UNCHANGED <<wvars, columns_to_rename, values_to_rename>>

Init == InitField

Next ==
    \/ IngestSqlData
    \/ IngestSqlDataFails
    \/ RenameColumns
    \/ ApplyCorrections

Spec == Init /\ [][Next]_vars

\* extract_measurement reads regex_patterns alone: its calls are explored on
\* their own
NextExtract == ExtractMeasurement

SpecExtract == InitWeather /\ [][NextExtract]_vars

NextWeather ==
    \/ WeatherStationMapping
    \/ WeatherStationMappingFails
    \/ ProcessMessages
    \/ CalculateMeans
    \/ ProcessWeatherFetchFails
    \/ ProcessWeather

SpecWeather == InitWeather /\ [][NextWeather]_vars

\* the calls of WeatherDataProcessor.process() on one instance
SpecRuns == InitWeather /\ [][ProcessWeather \/ ProcessWeatherFetchFails]_vars

\* the calls of FieldDataProcessor.process() on one instance
NextProcess == ProcessField

SpecProcess == InitField /\ [][NextProcess]_vars
(* ------------------------------------------------------------------ *)
(* Properties of FieldDataProcessor (specification Spec)              *)
(* ------------------------------------------------------------------ *)

C1name == column1(columns_to_rename)

C2name == column2(columns_to_rename)

ReturnedFrom(op) == f_call.op = op /\ f_call.exc = "none"

\* rename_columns was called on a table that has both names of the pair
SwapCase ==
    /\ f_call.op = "rename_columns"
    /\ f_before # NoneDf
    /\ HasCol(f_before, C1name)
    /\ HasCol(f_before, C2name)

\* the label whose data a label holds after the swap
SwapSource(name) ==
    IF name = C1name THEN C2name ELSE IF name = C2name THEN C1name ELSE name

\* C1 as stated: for a rename pair {A, B} with both names present, after
\* rename_columns every value that was under A is under B and every value that
\* was under B is under A, all other columns are unchanged and no column's data
\* is lost.
C1_Original ==
    SwapCase =>
        /\ Range(df.names) = Range(f_before.names)
        /\ \A name \in Range(f_before.names) :
            Col(df, name) = Col(f_before, SwapSource(name))

\* C1 as amended: for a rename pair {A, B} with both names present, after
\* rename_columns the table has the same labels, every label holds the data of
\* the label it was swapped with (its own data, outside the pair), except that
\* the column labelled Annual_yield after the swap has been coerced to numeric
\* (numeric text becomes its number, any other text becomes null); the call
\* raises KeyError, with the swap done, exactly when the table has no
\* Annual_yield; and the buffer name is never a label of the table.
C1_Swap ==
    SwapCase =>
        /\ Range(df.names) = Range(f_before.names)
        /\ Len(df.names) = Len(f_before.names)
        /\ f_call.exc = (IF HasCol(f_before, "Annual_yield") THEN "none" ELSE "KeyError")
        /\ \A name \in Range(f_before.names) :
            Col(df, name) =
                IF name = "Annual_yield"
                    THEN to_numeric(Col(f_before, SwapSource(name)))
                    ELSE Col(f_before, SwapSource(name))
        /\ temp_name(f_before) \notin Range(f_before.names)
        /\ temp_name(f_before) \notin Range(df.names)

\* C1 witness: a swap of two different columns of a table that already has a
\* column called "__temp_name_for_swap__" has returned
C1_Witness ==
    /\ SwapCase
    /\ f_call.exc = "none"
    /\ C1name # C2name
    /\ HasCol(f_before, "__temp_name_for_swap__")
    /\ Col(df, C1name) # Col(f_before, C1name)

TwoSwaps ==
    f_calls = <<Record("rename_columns", "none"), Record("rename_columns", "none")>>

\* C2 as stated: for all tables T and rename pair {A, B}, the swap applied
\* twice returns a table equal to T, value for value, in every column.
C2_Original == TwoSwaps => df = f_orig

\* the labels that carried the label Annual_yield after the first or the second swap
Coerced(name) ==
    \/ name = "Annual_yield"
    \/ "Annual_yield" \in {C1name, C2name} /\ name \in {C1name, C2name}

\* C2 as amended: for all tables T and rename pair {A, B}, the swap applied
\* twice returns a table with the labels of T in the order of T, equal to T
\* value for value in every column except Annual_yield and, when Annual_yield
\* is a name of the pair, the other name of the pair: these hold the values
\* of T coerced to numeric (text that is no number becomes null).
C2_Involution ==
    TwoSwaps =>
        /\ df.names = f_orig.names
        /\ \A i \in 1..Len(f_orig.names) :
            df.cols[i] = IF Coerced(f_orig.names[i])
                            THEN to_numeric(f_orig.cols[i])
                            ELSE f_orig.cols[i]

\* C2 witness: two swaps of two different columns of T have returned
C2_Witness ==
    /\ TwoSwaps
    /\ C1name # C2name
    /\ HasCol(f_orig, C1name)
    /\ HasCol(f_orig, C2name)
    /\ df # f_orig

\* the field correction has run: rename_columns raised, or it returned and
\* apply_corrections was called
CorrectionRan ==
    /\ f_orig # NoneDf
    /\ f_calls # <<>>
    /\ f_calls[1].op = "rename_columns"
    /\ \/ f_calls = <<Record("rename_columns", f_calls[1].exc)>> /\ f_calls[1].exc # "none"
       \/ /\ Len(f_calls) = 2
          /\ f_calls[1].exc = "none"
          /\ f_calls[2].op = "apply_corrections"

CorrectionOutcome ==
    IF f_calls[1].exc # "none" THEN f_calls[1].exc ELSE f_calls[2].exc

\* C3 as stated: the field correction (rename_columns followed by
\* apply_corrections) fails with a KeyError whenever either name of the rename
\* pair, the crop-type column or the elevation column is absent from the table.
C3_KeyError ==
    (/\ CorrectionRan
     /\ \E name \in {C1name, C2name, "Crop_type", "Elevation"} : ~HasCol(f_orig, name))
        => CorrectionOutcome = "KeyError"

\* apply_corrections was called on a table whose Elevation column holds
\* numbers and whose Crop_type column holds text
RepairCase ==
    /\ f_call.op = "apply_corrections"
    /\ f_before # NoneDf
    /\ HasCol(f_before, "Elevation")
    /\ Col(f_before, "Elevation").dtype = "float64"
    /\ HasCol(f_before, "Crop_type")
    /\ Col(f_before, "Crop_type").dtype = "object"

\* the token of a row, trimmed of surrounding whitespace and lower-cased
Trimmed(c) == StrLower(StrStrip(c.s))

\* C4: apply_corrections, for every row of the crop-type column: the result
\* is map[n] if n is a key of the value map and n otherwise, n being the
\* original token trimmed and lower-cased; it raises on no token and drops no
\* row (same labels, same row count, same row order).
C4_Repair ==
    RepairCase =>
        /\ f_call.exc = "none"
        /\ df.names = f_before.names
        /\ NRows(df) = NRows(f_before)
        /\ Len(Col(df, "Crop_type").vals) = Len(Col(f_before, "Crop_type").vals)
        /\ \A i \in 1..Len(Col(f_before, "Crop_type").vals) :
            LET old == Col(f_before, "Crop_type").vals[i]
                new == Col(df, "Crop_type").vals[i]
            IN  IF IsStr(old)
                    THEN new = Str(IF Trimmed(old) \in DOMAIN values_to_rename
                                      THEN values_to_rename[Trimmed(old)]
                                      ELSE Trimmed(old))
                    ELSE IsNull(new)
        /\ \A name \in Range(f_before.names) \ {"Crop_type", "Elevation"} :
            Col(df, name) = Col(f_before, name)

\* C4 witness: a repair has replaced a token that needed trimming and
\* lower-casing by its mapped value and has kept another token
C4_Witness ==
    /\ RepairCase
    /\ f_call.exc = "none"
    /\ \E i \in 1..NRows(f_before) :
        LET old == Col(f_before, "Crop_type").vals[i]
        IN  /\ IsStr(old)
            /\ Trimmed(old) # old.s
            /\ Trimmed(old) \in DOMAIN values_to_rename
    /\ \E i \in 1..NRows(f_before) :
        LET old == Col(f_before, "Crop_type").vals[i]
        IN  IsStr(old) /\ Trimmed(old) \notin DOMAIN values_to_rename

\* the last two calls were apply_corrections and both returned
TwoRepairs ==
    /\ Len(f_calls) >= 2
    /\ f_calls[Len(f_calls)] = Record("apply_corrections", "none")
    /\ f_calls[Len(f_calls) - 1] = Record("apply_corrections", "none")

\* C5 as stated: for every value-correction map, the vocabulary repair of
\* apply_corrections applied twice gives the same column as applied once.
C5_Original == TwoRepairs => df = f_before

\* every correction target is trimmed and lower-case, and is no key mapped
\* to something else
TargetsAreFixed(map) ==
    \A key \in DOMAIN map :
        /\ StrLower(StrStrip(map[key])) = map[key]
        /\ map[key] \in DOMAIN map => map[map[key]] = map[key]

\* C5 as amended: trim+lowercase normalization is idempotent on every token,
\* and for every value-correction map whose correction targets are trimmed,
\* lower-case and not themselves keys mapped to another value, applying the
\* repair of apply_corrections twice gives the same table as applying it once.
C5_Idempotent ==
    /\ (ReturnedFrom("apply_corrections") /\ f_before # NoneDf) =>
            \A c \in Range(Col(f_before, "Crop_type").vals) :
                IsStr(c) => Trimmed(Str(Trimmed(c))) = Trimmed(c)
    /\ (TwoRepairs /\ TargetsAreFixed(values_to_rename)) => df = f_before

\* C5 witness: two repairs in a row have returned, under a map with fixed
\* targets, on a column in which a token had been corrected
C5_Witness ==
    /\ TwoRepairs
    /\ TargetsAreFixed(values_to_rename)
    /\ \E c \in Range(Col(df, "Crop_type").vals) :
        /\ IsStr(c)
        /\ \E key \in DOMAIN values_to_rename : values_to_rename[key] = c.s
    /\ \E c \in Range(Col(f_orig, "Annual_yield").vals) :
        IsStr(c) /\ Trimmed(c) # c.s
(* ------------------------------------------------------------------ *)
(* Properties of extract_measurement (specification SpecExtract)      *)
(* ------------------------------------------------------------------ *)

\* extract_measurement was called on a text message with a configured type
ExtractCase ==
    /\ w_call.op = "extract_measurement"
    /\ IsStr(w_extract.message)
    /\ w_extract.type \in Range(PatternNames(regex_patterns))

ExtractPattern == PatternOf(regex_patterns, w_extract.type)

\* a number read strictly: optional leading '-', digits, optional
\* fractional part of a dot and digits
IsNumberText(t) ==
    LET u == IF t # <<>> /\ Head(t) = "-" THEN Tail(t) ELSE t
    IN  /\ u # <<>>
        /\ IsUnsignedDecimal(u)
        /\ u[1] \in DigitSet
        /\ u[Len(u)] \in DigitSet

\* a number read loosely: any text that float() parses, ".5" and "5." too
ParsesAsNumber(t) == FloatOk(t)

\* the value of the first group, in left-to-right order, whose matched text
\* is a number under the given reading; None if there is no match or no
\* such group
FirstNumber(m, groups, IsNumber(_)) ==
    LET hits == {g \in 1..Len(groups) : IsStr(groups[g]) /\ IsNumber(groups[g].s)}
    IN  IF m.ok /\ hits # {}
            THEN Num(FloatValue(groups[CHOOSE g \in hits : \A h \in hits : g <= h].s))
            ELSE NULL

\* C6 as stated: if the pattern matches, extract_measurement returns the
\* value of the first capturing group, in left-to-right order, whose matched
\* text is a number (under the strict or the loose reading of "number"); it
\* returns None if the pattern does not match or no group's text is a
\* number; it never raises.
C6_FirstNumber ==
    ExtractCase =>
        LET m == re_search(ExtractPattern, w_extract.message.s)
            groups == MatchGroups(m, w_extract.message.s)
        IN  /\ w_extract.exc = "none"
            /\ \/ w_extract.val = FirstNumber(m, groups, IsNumberText)
               \/ w_extract.val = FirstNumber(m, groups, ParsesAsNumber)

\* the digits and dots a fragment begins with
RECURSIVE NumberPrefix(_)
NumberPrefix(t) ==
    IF t # <<>> /\ Head(t) \in DigitSet \cup {"."}
        THEN <<Head(t)>> \o NumberPrefix(Tail(t))
        ELSE <<>>

ExtractedWith(name, pat) ==
    /\ ExtractCase
    /\ w_extract.type = name
    /\ ExtractPattern = pat

\* C7 as stated: with the Rainfall pattern \d+(\.\d+)?\s?mm and the
\* Temperature pattern \d+(\.\d+)?\s?C, whose only capturing group is the
\* optional fractional part, "Rainfall: 9mm, Temperature: 22C" gives
\* Rainfall 9.0 and Temperature 22.0.
C7_Original ==
    /\ (ExtractedWith("Rainfall", RainfallFractionOnly)
        /\ w_extract.message = Str(MsgScenarioB)) => w_extract.val = NumI(9)
    /\ (ExtractedWith("Temperature", TemperatureFractionOnly)
        /\ w_extract.message = Str(MsgScenarioB)) => w_extract.val = NumI(22)

\* C7 as amended: with the Rainfall pattern (\d+(\.\d+)?)\s?mm and the
\* Temperature pattern (\d+(\.\d+)?)\s?C of main, whose first capturing group
\* is the whole number, "Rainfall: 9mm, Temperature: 22C" gives Rainfall 9.0
\* and Temperature 22.0; and for every message in which the pattern matches,
\* the value returned is the number that the leftmost matching fragment
\* begins with, parsed whole.
C7_Fragment ==
    /\ (ExtractedWith("Rainfall", RainfallPattern)
        /\ w_extract.message = Str(MsgScenarioB)) => w_extract.val = NumI(9)
    /\ (ExtractedWith("Temperature", TemperaturePattern)
        /\ w_extract.message = Str(MsgScenarioB)) => w_extract.val = NumI(22)
    /\ (ExtractedWith("Rainfall", RainfallPattern)
        \/ ExtractedWith("Temperature", TemperaturePattern)) =>
            LET m == re_search(ExtractPattern, w_extract.message.s)
                fragment == Slice(w_extract.message.s, m.start, m.end)
            IN  /\ w_extract.exc = "none"
                /\ w_extract.val =
                    IF m.ok THEN Num(FloatValue(NumberPrefix(fragment))) ELSE NULL

\* C7 witness: the Rainfall pattern of main has extracted 12.5 from
\* "Rainfall: 12.5mm"
C7_Witness ==
    /\ ExtractedWith("Rainfall", RainfallPattern)
    /\ w_extract.message = Str(MsgRain125)
    /\ w_extract.val = Num(<<25, 2>>)

(* ------------------------------------------------------------------ *)
(* Properties of WeatherDataProcessor (specification SpecWeather)     *)
(* ------------------------------------------------------------------ *)

\* process_messages has run (on its own or within process) on a table with
\* a Message column
MessagesCase ==
    /\ w_call.op \in {"process_messages", "process"}
    /\ w_before # NoneDf
    /\ HasCol(w_before, "Message")

Names == PatternNames(regex_patterns)

\* the first columns of the table are those it had before the call
OldColumnsKept ==
    /\ Len(weather_df.names) >= Len(w_before.names)
    /\ \A i \in 1..Len(w_before.names) :
        /\ weather_df.names[i] = w_before.names[i]
        /\ weather_df.cols[i] = w_before.cols[i]

\* a row whose message does not match a pattern has null in its column
NullWhereNoMatch ==
    \A k \in 1..Len(regex_patterns) : \A i \in 1..NRows(w_before) :
        LET msg == Col(w_before, "Message").vals[i]
        IN  (IsStr(msg) /\ ~re_search(regex_patterns[k].pat, msg.s).ok) =>
                /\ HasCol(weather_df, Names[k])
                /\ IsNull(Col(weather_df, Names[k]).vals[i])

\* C8 as stated: for every table with a Message column and every pattern
\* set, after process_messages the table has exactly one additional column
\* per measurement name, every column that existed before holds the same
\* values, row count and order are unchanged, and a row whose message does
\* not match a pattern has null in that pattern's column.
C8_Original ==
    MessagesCase =>
        /\ weather_df.names = w_before.names \o Names
        /\ OldColumnsKept
        /\ NRows(weather_df) = NRows(w_before)
        /\ NullWhereNoMatch

NewNames == Range(Names) \cap Range(w_before.names) = {}

\* What process_messages does keep, raising or not, when no measurement name
\* is already a column: the old columns and the rows; on return one column
\* per measurement name is added, with null where the pattern does not
\* match; on a raise only the columns before the raising one were added.
ProcessMessagesFrame ==
    (MessagesCase /\ NewNames) =>
        /\ OldColumnsKept
        /\ NRows(weather_df) = NRows(w_before)
        /\ \A c \in Range(weather_df.cols) : Len(c.vals) = NRows(w_before)
        /\ w_call.exc = "none" =>
            /\ weather_df.names = w_before.names \o Names
            /\ NullWhereNoMatch
        /\ w_call.exc # "none" =>
            \E k \in 0..(Len(Names) - 1) :
                weather_df.names = w_before.names \o SubSeq(Names, 1, k)

\* the orders of the non-empty subsets of a pattern set
RECURSIVE Orders(_)
Orders(S) ==
    IF S = {} THEN {<<>>}
    ELSE UNION {{<<e>> \o q : q \in Orders(S \ {e})} : e \in S}

PatternOrders ==
    UNION {Orders(S) : S \in (SUBSET Range(regex_patterns)) \ {{}}}

Absent == Column("absent", <<>>)

ColumnOrAbsent(table, name) == IF HasCol(table, name) THEN Col(table, name) ELSE Absent

\* C9 as stated: the column that process_messages produces for a
\* measurement name is the same whatever order the measurement names are
\* evaluated in and whatever other patterns the set contains.
C9_Original ==
    (w_call.op \in {"process_messages", "process"} /\ w_before # NoneDf) =>
        \A q \in PatternOrders : \A k \in 1..Len(q) :
            ColumnOrAbsent(weather_df, q[k].name)
                = ColumnOrAbsent(process_messages(w_before, q).df, q[k].name)

\* the column of a measurement computed from the original messages and its
\* own pattern alone
OwnColumn(entry) ==
    [i \in 1..NRows(w_before) |->
        extract_measurement(<<entry>>, Col(w_before, "Message").vals[i], entry.name)]

RaisesAlone(entry) == \E i \in 1..NRows(w_before) : OwnColumn(entry)[i].exc # "none"

\* the entries of q up to the k-th extract without raising
AssignedIn(q, k) == \A j \in 1..k : ~RaisesAlone(q[j])

\* What process_messages does keep when no measurement is named Message:
\* every column it assigns holds, row by row, the extraction from the
\* original Message text by that measurement's own pattern; the columns it
\* assigns are those of the measurement names before the first raising one.
OwnPatternOnly ==
    (MessagesCase /\ "Message" \notin Range(Names)) =>
        /\ \A k \in 1..Len(regex_patterns) :
            IF AssignedIn(regex_patterns, k)
                THEN /\ HasCol(weather_df, Names[k])
                     /\ Col(weather_df, Names[k]).vals =
                            [i \in 1..NRows(w_before) |->
                                OwnColumn(regex_patterns[k])[i].val]
                ELSE ColumnOrAbsent(weather_df, Names[k])
                        = ColumnOrAbsent(w_before, Names[k])
        /\ \A q \in PatternOrders : \A k \in 1..Len(q) :
            (AssignedIn(q, k)
             /\ AssignedIn(regex_patterns,
                           IndexOf(Names, q[k].name))) =>
                ColumnOrAbsent(weather_df, q[k].name)
                    = ColumnOrAbsent(process_messages(w_before, q).df, q[k].name)

\* calculate_means has run (on its own or within process) on a loaded table
MeansCase ==
    /\ weather_df # NoneDf
    /\ \/ w_call.op = "calculate_means"
       \/ w_call.op = "process" /\ w_call.exc = "none"

Recognized == {k \in 1..Len(possible_names) : HasCol(weather_df, possible_names[k])}

\* the first name of the priority order that is a column, the first column
\* of the table if none is
ExpectedStation ==
    IF Recognized # {}
        THEN possible_names[CHOOSE k \in Recognized : \A j \in Recognized : k <= j]
        ELSE weather_df.names[1]

\* some pattern name is a column with a value that is not null
Qualifies ==
    \E name \in Range(Names) :
        /\ HasCol(weather_df, name)
        /\ \E c \in Range(Col(weather_df, name).vals) : ~IsNull(c)

\* C10 as stated: calculate_means groups by the first name of the priority
\* order that is a column, by the table's first column if none is, and with
\* no recognizable station column it still produces an aggregate, grouped by
\* that first column (stated here for the pattern set of main).
C10_Original ==
    (MeansCase /\ regex_patterns = MainPatterns) =>
        /\ w_assigned => weather_df_mean.by = ExpectedStation
        /\ Recognized = {} =>
            /\ w_assigned
            /\ weather_df_mean.by = weather_df.names[1]

\* some pattern name is a column that holds a text value
HoldsText ==
    \E name \in Range(Names) :
        /\ HasCol(weather_df, name)
        /\ \E c \in Range(Col(weather_df, name).vals) : IsStr(c)

\* C10 as amended: calculate_means groups by the first name of the priority
\* order that is a column, by the table's first column if none is; it
\* produces an aggregate exactly when some pattern name is a column with a
\* non-null value and no such column holds text, with or without a
\* recognizable station column, and then the aggregate has one row per
\* non-null value of the group-by column; otherwise it returns without
\* an aggregate and without raising.
C10_Station ==
    MeansCase =>
        /\ w_assigned <=> (Qualifies /\ ~HoldsText)
        /\ w_call.op = "calculate_means" => w_call.exc = "none"
        /\ w_assigned =>
            /\ weather_df_mean.by = ExpectedStation
            /\ weather_df_mean.keys =
                {c \in Range(Col(weather_df, ExpectedStation).vals) : ~IsNull(c)}

\* C10 witness: an aggregate was produced for a table with no recognizable
\* station column, grouped by its first column
C10_Witness ==
    /\ MeansCase
    /\ Recognized = {}
    /\ w_assigned
    /\ weather_df_mean.by = weather_df.names[1]
    /\ Cardinality(weather_df_mean.keys) >= 2
\* calculate_means has built an aggregate from the table the instance holds
AggregateBuilt == MeansCase /\ w_assigned

\* the non-null values of a measurement over the rows of a station, in row
\* order
StationValues(name, key) ==
    LET rows == SelectSeq([i \in 1..NRows(weather_df) |-> i],
                          LAMBDA i : Col(weather_df, ExpectedStation).vals[i] = key)
        vals == [j \in 1..Len(rows) |-> Col(weather_df, name).vals[rows[j]]]
    IN  SelectSeq(vals, LAMBDA c : ~IsNull(c))

\* C11: the aggregate built by calculate_means has one row per distinct
\* station identity and exactly one column per pattern name that is a column
\* of the table with at least one non-null value; each cell is the mean of
\* that measurement's non-null values over the rows of that station, and is
\* null, not zero, when the station has no non-null value for it.
C11_Aggregate ==
    AggregateBuilt =>
        /\ weather_df_mean.keys =
            {c \in Range(Col(weather_df, ExpectedStation).vals) : ~IsNull(c)}
        /\ weather_df_mean.columns =
            SelectSeq(Names,
                      LAMBDA name :
                        /\ HasCol(weather_df, name)
                        /\ \E c \in Range(Col(weather_df, name).vals) : ~IsNull(c))
        /\ \A i, j \in 1..Len(weather_df_mean.columns) :
            weather_df_mean.columns[i] = weather_df_mean.columns[j] => i = j
        /\ \A key \in weather_df_mean.keys :
            /\ DOMAIN weather_df_mean.mean[key] = Range(weather_df_mean.columns)
            /\ \A name \in Range(weather_df_mean.columns) :
                LET vals == StationValues(name, key)
                    total == FracSum([i \in 1..Len(vals) |-> vals[i].n])
                IN  weather_df_mean.mean[key][name] =
                        IF vals = <<>> THEN NULL
                        ELSE Num(Frac(total[1], total[2] * Len(vals)))

\* C11 witness: an aggregate in which a station with the Rainfall values
\* 10, null, 20 has the mean 15 and the all-null Pollution_level is no column
C11_Witness ==
    /\ AggregateBuilt
    /\ regex_patterns = MainPatterns
    /\ weather_df_mean.columns = <<"Rainfall", "Temperature">>
    /\ \E key \in weather_df_mean.keys :
        /\ StationValues("Rainfall", key) = <<NumI(10), NumI(20)>>
        /\ weather_df_mean.mean[key]["Rainfall"] = NumI(15)
\* process() of the weather pipeline has been called
ProcessCalled == w_call.op = "process"

\* the fetch of that call failed (no table was read)
FetchFailed == w_before = NoneDf

\* some extraction over the fetched table fails: the table has no Message
\* column, or extract_measurement raises on some row for some pattern, the
\* patterns being applied in order to the table as it then is
RECURSIVE ExtractionFails(_, _)
ExtractionFails(table, k) ==
    IF k > Len(regex_patterns) THEN FALSE
    ELSE IF ~HasCol(table, "Message") THEN TRUE
    ELSE LET msgs == Col(table, "Message").vals
             res == [i \in 1..Len(msgs) |->
                        extract_measurement(regex_patterns, msgs[i], Names[k])]
         IN  \/ \E i \in 1..Len(msgs) : res[i].exc # "none"
             \/ ExtractionFails(
                    SetCol(table, Names[k],
                           AppliedColumn([i \in 1..Len(msgs) |-> res[i].val])),
                    k + 1)

\* C12: if the fetch or the extraction fails, the failure propagates to the
\* caller of process() and no table is returned; if both succeed, process()
\* returns the extracted table, the one the instance holds, whether or not
\* the aggregation produced an aggregate.
C12_Pipeline ==
    ProcessCalled =>
        IF FetchFailed \/ ExtractionFails(w_before, 1)
            THEN /\ w_call.exc # "none"
                 /\ w_call.ret = NoneDf
                 /\ ~w_assigned
            ELSE /\ w_call.exc = "none"
                 /\ w_call.ret # NoneDf
                 /\ w_call.ret = weather_df
                 /\ OldColumnsKept \/ ~NewNames
                 /\ \A name \in Range(Names) : HasCol(w_call.ret, name)

\* C12 witness: process() has returned the extracted table of a run whose
\* aggregation gave no result
C12_Witness ==
    /\ ProcessCalled
    /\ ~FetchFailed
    /\ w_call.exc = "none"
    /\ ~w_assigned
    /\ Len(Names) >= 2
    /\ w_call.ret.names = w_before.names \o Names
(* ------------------------------------------------------------------ *)
(* Properties of FieldDataProcessor.process (specification SpecProcess) *)
(* ------------------------------------------------------------------ *)

\* the one order of the stages of process()
StageOrder ==
    <<"ingest_sql_data", "rename_columns", "apply_corrections",
      "weather_station_mapping", "merge", "drop", "return">>

FieldProcessCalled == f_call.op = "process"

\* the column of the returned table that holds a column of the corrected
\* table: under its name, or under name_x when the mapping has the name too
ReturnedColumn(name) ==
    IF HasCol(f_call.ret, name) THEN Col(f_call.ret, name)
    ELSE Col(f_call.ret, name \o "_x")

\* every row of the corrected table is a row of the returned table, and the
\* rows keep their order
FieldRowsRetained ==
    LET corrected == f_run.corrected
        kept == {name \in Range(corrected.names) : name # "Unnamed: 0"}
        IsRow(i, j) ==
            \A name \in kept :
                ReturnedColumn(name).vals[j] = Col(corrected, name).vals[i]
    IN  /\ \A name \in kept :
            HasCol(f_call.ret, name) \/ HasCol(f_call.ret, name \o "_x")
        /\ NRows(f_call.ret) >= NRows(corrected)
        /\ \A i \in 1..NRows(corrected) : \E j \in 1..NRows(f_call.ret) : IsRow(i, j)
        /\ \A j \in 1..NRows(f_call.ret) : \E i \in 1..NRows(corrected) : IsRow(i, j)

\* C13: process() runs its stages in the single order ingest, column swap,
\* corrections, fetch of the station mapping, left join on Field_ID, drop of
\* "Unnamed: 0", return, with no retry and no backward transition; a failure
\* in a stage aborts the pipeline at that stage, no later stage runs and
\* the failure propagates to the caller; on success every field row of the
\* corrected table is present in the returned table.
C13_Linear ==
    FieldProcessCalled =>
        LET log == f_run.stages
            n == Len(log)
            swapped == rename_columns(f_orig, columns_to_rename)
            corrected == apply_corrections(swapped.df, values_to_rename,
                                           "Crop_type", "Elevation")
        IN  /\ n \in 1..Len(StageOrder)
            /\ \A k \in 1..n : log[k].op = StageOrder[k]
            /\ \A k \in 1..(n - 1) : log[k].exc = "none"
            /\ f_call.exc = log[n].exc
            /\ f_call.exc = "none" <=> n = Len(StageOrder)
            /\ n >= 2 => log[2].exc = swapped.exc
            /\ n >= 3 => log[3].exc = corrected.exc
            /\ n >= 4 => f_run.corrected = corrected.df
            /\ n >= 5 =>
                log[5].exc = "none"
                    <=> (HasCol(f_run.corrected, "Field_ID")
                         /\ HasCol(f_run.mapping, "Field_ID"))
            /\ f_call.exc # "none" =>
                /\ f_call.ret = NoneDf
                /\ n = 1 => df = f_before
                /\ n = 2 => df = swapped.df
                /\ n = 3 => df = corrected.df
                /\ n >= 4 => df = f_run.corrected
            /\ f_call.exc = "none" =>
                /\ f_call.ret = df
                /\ ~HasCol(f_call.ret, "Unnamed: 0")
                /\ FieldRowsRetained

\* C13 witness: process() has returned after its seven stages; field 1 had
\* no station in the mapping and has null there, field 2 had two and has two
\* rows, and the column "Unnamed: 0" of the mapping was dropped
C13_Witness ==
    /\ FieldProcessCalled
    /\ f_call.exc = "none"
    /\ Len(f_run.stages) = Len(StageOrder)
    /\ HasCol(f_run.mapping, "Unnamed: 0")
    /\ NRows(f_call.ret) = 3
    /\ Col(f_call.ret, "Field_ID").vals = <<NumI(1), NumI(2), NumI(2)>>
    /\ Col(f_call.ret, "Weather_station").vals = <<NULL, NumI(4), NumI(1)>>

\* a witness of the other case: process() was aborted by a failing correction
C13_Aborted ==
    /\ FieldProcessCalled
    /\ Len(f_run.stages) = 3
    /\ f_call.exc # "none"
(* ------------------------------------------------------------------ *)
(* Properties of repeated WeatherDataProcessor.process (SpecRuns)     *)
(* ------------------------------------------------------------------ *)

\* C14: after any sequence of process() calls on one instance, whenever the
\* instance holds an aggregate it is the aggregate of the table returned by
\* the most recent process() call; a run that returned no table, or whose
\* aggregation was skipped or failed, has no aggregate.
C14_Current ==
    (ProcessCalled /\ weather_df_mean # NoMean) =>
        /\ w_call.exc = "none"
        /\ weather_df_mean = MeanAfter(w_call.ret, regex_patterns, NoMean)
====
